---- MODULE Spec2Model ----
(***************************************************************************)
(* A model of src/main.cpp: the transfer functions, struct Layer and       *)
(* struct NeuralNet (a two-layer feed-forward network trained by           *)
(* per-example backpropagation).                                           *)
(*                                                                         *)
(* A float is modelled as a fixed-point integer: the integer v stands for  *)
(* the real number v / Scale, and every product is rounded to the nearest  *)
(* unit, as a float operation rounds its exact result.  The IEEE special   *)
(* values NaN, +Inf and -Inf are kept as three reserved integers outside   *)
(* the finite range, with the IEEE rules for them in FAdd and FMul.        *)
(* Signed zero and overflow of a finite result to an infinity are not      *)
(* modelled.                                                               *)
(***************************************************************************)
EXTENDS Integers, Sequences, FiniteSets, TLC

\* ------------------------------------------------------------- bounds
\* One float unit is 1/Scale.
Scale == 100
\* Layer widths range over 0..MaxWidth.
MaxWidth == 2
\* train is called with 0..MaxTests examples.
MaxTests == 2
\* At most MaxEpochs epochs are trained in one run of the program.
MaxEpochs == 2
\* rand() returns a value in 0..RandMax.
RandMax == 4
\* The activation is applied to the arguments -ActRange..ActRange.
ActRange == 300
\* Two derivative values further apart than Tol units are told apart.
Tol == 5
\* Layer::updateWeights is called directly at most MaxUpdates times.
MaxUpdates == 1

\* ------------------------------------------------------ float arithmetic
PosInf == 10^9
NegInf == -(10^9)
NaN == 2 * 10^9

IsFinite(x) == x # NaN /\ x # PosInf /\ x # NegInf

Sign(x) == IF x > 0 THEN 1 ELSE IF x < 0 THEN -1 ELSE 0

\* n / d rounded to the nearest integer (d > 0).
RoundDiv(n, d) == (2 * n + d) \div (2 * d)

\* The float the decimal literal n/d denotes, e.g. 0.2f is Lit(2, 10).
Lit(n, d) == RoundDiv(n * Scale, d)

One == Lit(1, 1)

\* a + b
FAdd(a, b) ==
    IF a = NaN \/ b = NaN THEN NaN
    ELSE IF ~IsFinite(a) /\ ~IsFinite(b) THEN (IF a = b THEN a ELSE NaN)
    ELSE IF ~IsFinite(a) THEN a
    ELSE IF ~IsFinite(b) THEN b
    ELSE a + b

\* a - b
FSub(a, b) ==
    FAdd(a, IF b = NaN THEN NaN
            ELSE IF b = PosInf THEN NegInf
            ELSE IF b = NegInf THEN PosInf
            ELSE -b)

\* a * b
FMul(a, b) ==
    IF a = NaN \/ b = NaN THEN NaN
    ELSE IF ~IsFinite(a) \/ ~IsFinite(b)
         THEN (IF a = 0 \/ b = 0 THEN NaN
               ELSE IF Sign(a) * Sign(b) > 0 THEN PosInf ELSE NegInf)
    ELSE RoundDiv(a * b, Scale)

\* fValue >= 0.0f (false for a NaN)
FGeZero(x) == x # NaN /\ x >= 0

\* e^-1 in units of 1/(Scale*Scale)
EInv == RoundDiv(Scale * Scale * 36788, 100000)

RECURSIVE ExpSeries(_, _, _)
\* Horner evaluation of the Taylor series of e^f, f in (-1, 0], from term k
\* down to term 1; f and the sum t are in units of 1/(Scale*Scale).
ExpSeries(f, k, t) ==
    IF k = 0 THEN t
    ELSE ExpSeries(f, k - 1, Scale * Scale + RoundDiv(f * t, k * Scale * Scale))

RECURSIVE ExpScale(_, _)
\* r * e^-n, in units of 1/(Scale*Scale)
ExpScale(r, n) ==
    IF n = 0 \/ r = 0 THEN r
    ELSE ExpScale(RoundDiv(r * EInv, Scale * Scale), n - 1)

\* e^x for a finite x <= 0, in units of 1/(Scale*Scale)
ExpNeg(x) ==
    LET n == (-x) \div Scale
        f == (x + n * Scale) * Scale
    IN  ExpScale(ExpSeries(f, 8, Scale * Scale), n)

\* expf
Expf(x) ==
    IF x = NaN THEN NaN
    ELSE IF x = PosInf THEN PosInf
    ELSE IF x = NegInf THEN 0
    ELSE IF x <= 0 THEN RoundDiv(ExpNeg(x), Scale)
    ELSE IF ExpNeg(-x) = 0 THEN PosInf
    ELSE RoundDiv(RoundDiv(Scale * Scale * Scale * Scale, ExpNeg(-x)), Scale)

\* ------------------------------------------------- transfer functions
elu(fValue) ==
    IF FGeZero(fValue) THEN fValue ELSE FSub(Expf(fValue), One)

eluDerivative(fValue) ==
    IF FGeZero(fValue) THEN One ELSE Expf(fValue)

transfer(fValue) == elu(fValue)

transferDerivative(fValue) == eluDerivative(fValue)

\* ------------------------------------------------------------ randomize
\* rand(): libc's generator is a deterministic recurrence on a hidden state,
\* here one that runs through all of 0..RandMax.
rand(state) == (state + 1) % (RandMax + 1)

\* The program never calls srand, so the generator starts as after srand(1).
SeedState == 1

randomFloat(r) == FAdd(FMul(RoundDiv(r * Scale, RandMax), Lit(4, 10)), Lit(5, 10))

RECURSIVE randomize(_, _)
\* The count values randomize writes, drawn from the generator in state
\* `state`.
randomize(state, count) ==
    IF count = 0 THEN <<>>
    ELSE <<randomFloat(rand(state))>> \o randomize(rand(state), count - 1)

RECURSIVE randAfter(_, _)
\* The generator's state after count calls of rand().
randAfter(state, count) ==
    IF count = 0 THEN state ELSE randAfter(rand(state), count - 1)

\* ---------------------------------------------------------------- Layer
\* Layer::Layer: m_pWeights holds inputCount * outputCount floats (index
\* 0 of the C++ buffer is element 1 of the sequence), m_pBiases outputCount.
Layer(inputCount, outputCount, state) ==
    [ m_inputCount  |-> inputCount,
      m_outputCount |-> outputCount,
      m_pWeights    |-> randomize(state, inputCount * outputCount),
      m_pBiases     |-> randomize(randAfter(state, inputCount * outputCount),
                                  outputCount) ]

\* The generator's state after Layer::Layer.
LayerRandAfter(inputCount, outputCount, state) ==
    randAfter(state, inputCount * outputCount + outputCount)

\* buffer[index] of a float buffer holding Len(buffer) elements: a read past
\* its end is undefined behaviour and yields the arbitrary value `garbage`.
ReadAt(buffer, index, garbage) ==
    IF index >= 0 /\ index < Len(buffer) THEN buffer[index + 1] ELSE garbage

RECURSIVE Activation(_, _, _, _, _, _)
\* The inner loop of Layer::propagate from input i on, fActivation so far.
Activation(layer, pInputs, o, i, fActivation, garbage) ==
    IF i >= layer.m_inputCount THEN fActivation
    ELSE Activation(layer, pInputs, o, i + 1,
                    FAdd(fActivation,
                         FMul(ReadAt(pInputs, i, garbage),
                              layer.m_pWeights[layer.m_inputCount * o + i + 1])),
                    garbage)

\* Layer::propagate: the outputCount values written to pOutputs.
propagate(layer, pInputs, garbage) ==
    [ o1 \in 1..layer.m_outputCount |->
        transfer(Activation(layer, pInputs, o1 - 1, 0,
                            layer.m_pBiases[o1], garbage)) ]

\* fChange computed without the delta
ChangeWithoutDelta(pDeltas, o, fLearningRate) == fLearningRate

\* fChange of Layer::updateWeights for output o.
Change(pDeltas, o, fLearningRate) == FMul(pDeltas[o + 1], fLearningRate)

\* The bias m_pBiases[o] after Layer::updateWeights.
UpdatedBias(layer, pDeltas, o, fLearningRate) ==
    FAdd(layer.m_pBiases[o + 1], Change(pDeltas, o, fLearningRate))

\* Layer::updateWeights: the layer after the call.  Every weight and bias is
\* written once, so the loops are a pointwise map.
updateWeights(layer, pInputs, pDeltas, fLearningRate) ==
    [ layer EXCEPT
        !.m_pWeights =
            [ j \in 1..(layer.m_inputCount * layer.m_outputCount) |->
                LET o == (j - 1) \div layer.m_inputCount
                    i == (j - 1) % layer.m_inputCount
                IN  FAdd(layer.m_pWeights[j],
                         FMul(Change(pDeltas, o, fLearningRate), pInputs[i + 1])) ],
        !.m_pBiases =
            [ o1 \in 1..layer.m_outputCount |->
                UpdatedBias(layer, pDeltas, o1 - 1, fLearningRate) ] ]

\* fError of Layer::computeOutputDeltas for output o.
OutputError(pOutputValues, pExpectedValues, o) ==
    FSub(pExpectedValues[o + 1], pOutputValues[o + 1])

RECURSIVE QuadraticError(_, _, _, _, _)
\* fTotalQuadraticError of Layer::computeOutputDeltas from output o on.
QuadraticError(layer, pOutputValues, pExpectedValues, o, fTotal) ==
    IF o >= layer.m_outputCount THEN fTotal
    ELSE QuadraticError(layer, pOutputValues, pExpectedValues, o + 1,
            FAdd(fTotal,
                 FMul(OutputError(pOutputValues, pExpectedValues, o),
                      OutputError(pOutputValues, pExpectedValues, o))))

\* Layer::computeOutputDeltas: the deltas written and the value returned.
computeOutputDeltas(layer, pOutputValues, pExpectedValues) ==
    [ pDeltas |->
        [ o1 \in 1..layer.m_outputCount |->
            FMul(OutputError(pOutputValues, pExpectedValues, o1 - 1),
                 transferDerivative(pOutputValues[o1])) ],
      fTotalQuadraticError |->
        QuadraticError(layer, pOutputValues, pExpectedValues, 0, 0) ]

\* The index computed with this layer's input count as the row length.
DeltaWeightIndexByInputs(layer, i, o) == layer.m_inputCount * i + o

\* The index into pNextLayer->m_pWeights that Layer::computeDeltas reads for
\* its own unit o and the next layer's unit i.
DeltaWeightIndex(layer, i, o) == layer.m_outputCount * i + o

RECURSIVE BackError(_, _, _, _, _, _, _)
\* fError of Layer::computeDeltas for unit o, from the next layer's unit i on.
BackError(layer, pNextLayer, pNextDeltas, o, i, fError, garbage) ==
    IF i >= pNextLayer.m_outputCount THEN fError
    ELSE BackError(layer, pNextLayer, pNextDeltas, o, i + 1,
            FAdd(fError,
                 FMul(pNextDeltas[i + 1],
                      ReadAt(pNextLayer.m_pWeights,
                             DeltaWeightIndex(layer, i, o), garbage))),
            garbage)

\* Layer::computeDeltas: the outputCount values written to pDeltas.
computeDeltas(layer, pNextLayer, pNextDeltas, pValues, garbage) ==
    [ o1 \in 1..layer.m_outputCount |->
        FMul(BackError(layer, pNextLayer, pNextDeltas, o1 - 1, 0, 0, garbage),
             transferDerivative(pValues[o1])) ]

\* The reads of pNextLayer->m_pWeights that Layer::computeDeltas makes:
\* <<i, o, index>> for the next layer's unit i and this layer's unit o.
DeltaReads(layer, pNextLayer) ==
    { <<i, o, DeltaWeightIndex(layer, i, o)>> :
        i \in 0..(pNextLayer.m_outputCount - 1),
        o \in 0..(layer.m_outputCount - 1) }

\* ------------------------------------------------------------ test data
s_testCount == 4

s_testInputData == <<Lit(0, 10), Lit(2, 10), Lit(8, 10), Lit(10, 10)>>

s_testOutputData == <<Lit(10, 10), Lit(8, 10), Lit(2, 10), Lit(0, 10)>>

\* A caller's flat buffer of count floats, filled from data starting at
\* element first and wrapping around.
Buffer(data, first, count) ==
    [ j \in 1..count |-> data[((first + j - 1) % s_testCount) + 1] ]

\* fLearningRate of main
LearningRate == Lit(2, 10)

\* What a read past the end of a buffer may yield.
Garbage == {0, One}

\* ---------------------------------------------------------------- state
VARIABLES
    m_hiddenLayer, m_outputLayer,   \* NeuralNet's members
    pc,                             \* "idle", or the position inside train
    pAllInputs, pAllExpectedOutputs, testCount, epochCount, fLearningRate,
                                    \* train's arguments
    epoch, test, fTotalQuadraticError,
    pHiddenValues, pHiddenDeltas, pOutputValues, pOutputDeltas,
                                    \* train's locals
    reports,                        \* what train has printed: <<epoch, error>>
    evaluated,                      \* <<the last evaluate call>>, or <<>>
    epochsRun,                      \* epochs asked of train so far
    examples,                       \* how many examples the caller holds
    \* history, read by the properties only
    done,                           \* the calls made for the current example
    forwardWeights,                 \* output weights when output.propagate ran
    deltaWeights,                   \* output weights when computeDeltas ran
    reads,                          \* the reads computeDeltas made
    errors,                         \* computeOutputDeltas' results this epoch
    processed,                      \* the examples completed this epoch
    epochLog,                       \* per report: its errors and processed
    \* struct Layer used on its own
    layer, layerBefore, updateArgs, updates,
    \* the transfer functions used on their own
    fValue, fOutput, fDerivative

netVars == <<m_hiddenLayer, m_outputLayer>>

trainVars == <<pc, pAllInputs, pAllExpectedOutputs, testCount, epochCount,
               fLearningRate, epoch, test, fTotalQuadraticError, pHiddenValues,
               pHiddenDeltas, pOutputValues, pOutputDeltas, reports, epochsRun,
               examples>>

historyVars == <<done, forwardWeights, deltaWeights, reads, errors, processed,
                 epochLog>>

layerVars == <<layer, layerBefore, updateArgs, updates>>

transferVars == <<fValue, fOutput, fDerivative>>

vars == <<netVars, trainVars, evaluated, historyVars, layerVars, transferVars>>

\* ------------------------------------------------------------ NeuralNet
\* NeuralNet::NeuralNet: m_hiddenLayer is constructed first.
NeuralNetHidden(inputCount, hiddenCount, outputCount, state) ==
    Layer(inputCount, hiddenCount, state)

NeuralNetOutput(inputCount, hiddenCount, outputCount, state) ==
    Layer(hiddenCount, outputCount,
          LayerRandAfter(inputCount, hiddenCount, state))

\* The state of the parts a specification does not use.
NoNet ==
    /\ m_hiddenLayer = <<>> /\ m_outputLayer = <<>>
    /\ pc = "unused"
    /\ pAllInputs = <<>> /\ pAllExpectedOutputs = <<>>
    /\ testCount = 0 /\ epochCount = 0 /\ fLearningRate = 0
    /\ epoch = 0 /\ test = 0 /\ fTotalQuadraticError = 0
    /\ pHiddenValues = <<>> /\ pHiddenDeltas = <<>>
    /\ pOutputValues = <<>> /\ pOutputDeltas = <<>>
    /\ reports = <<>> /\ evaluated = <<>> /\ epochsRun = 0 /\ examples = 0
    /\ done = <<>> /\ forwardWeights = <<>> /\ deltaWeights = <<>>
    /\ reads = {} /\ errors = <<>> /\ processed = <<>> /\ epochLog = <<>>

NoLayer ==
    layer = <<>> /\ layerBefore = <<>> /\ updateArgs = <<>> /\ updates = 0

NoTransfer ==
    fValue = 0 /\ fOutput = <<>> /\ fDerivative = <<>>

\* The program after NeuralNet's construction, for any widths and any number
\* of examples in the caller's data.
Init ==
    /\ examples \in 0..MaxTests
    /\ \E inputCount \in 0..MaxWidth, hiddenCount \in 0..MaxWidth,
          outputCount \in 0..MaxWidth :
          /\ m_hiddenLayer =
                NeuralNetHidden(inputCount, hiddenCount, outputCount, SeedState)
          /\ m_outputLayer =
                NeuralNetOutput(inputCount, hiddenCount, outputCount, SeedState)
    /\ pc = "idle"
    /\ pAllInputs = <<>> /\ pAllExpectedOutputs = <<>>
    /\ testCount = 0 /\ epochCount = 0 /\ fLearningRate = 0
    /\ epoch = 0 /\ test = 0 /\ fTotalQuadraticError = 0
    /\ pHiddenValues = <<>> /\ pHiddenDeltas = <<>>
    /\ pOutputValues = <<>> /\ pOutputDeltas = <<>>
    /\ reports = <<>> /\ evaluated = <<>> /\ epochsRun = 0
    /\ done = <<>> /\ forwardWeights = <<>> /\ deltaWeights = <<>>
    /\ reads = {} /\ errors = <<>> /\ processed = <<>> /\ epochLog = <<>>
    /\ NoLayer /\ NoTransfer

\* evaluate with the hidden activations written into the hidden layer's bias
\* buffer instead of a buffer of its own.
evaluateIntoBiases(hiddenLayer, outputLayer, pInputs, garbage) ==
    LET pHiddenOutputs == propagate(hiddenLayer, pInputs, garbage)
    IN  [ pOutputs      |-> propagate(outputLayer, pHiddenOutputs, garbage),
          m_hiddenLayer |-> [hiddenLayer EXCEPT !.m_pBiases = pHiddenOutputs],
          m_outputLayer |-> outputLayer ]

\* NeuralNet::evaluate: the values written to pOutputs, and the two layers
\* after the call.
evaluate(hiddenLayer, outputLayer, pInputs, garbage) ==
    LET pHiddenOutputs == propagate(hiddenLayer, pInputs, garbage)
    IN  [ pOutputs      |-> propagate(outputLayer, pHiddenOutputs, garbage),
          m_hiddenLayer |-> hiddenLayer,
          m_outputLayer |-> outputLayer ]

\* A call of evaluate between two calls of train, on a caller's buffer of
\* any length: evaluate takes a bare pointer and reads getInputCount()
\* floats from it.
Evaluate ==
    /\ pc = "idle"
    /\ \E length \in 0..(MaxWidth + 1), first \in 0..1, garbage \in Garbage :
          \* what a read past the end yields matters only if there is one
          /\ length >= m_hiddenLayer.m_inputCount => garbage = 0
          /\ LET buffer == Buffer(s_testInputData, first, length)
                 call == evaluate(m_hiddenLayer, m_outputLayer, buffer, garbage)
             IN  /\ evaluated' = << [ pInputs       |-> buffer,
                                     pOutputs      |-> call.pOutputs,
                                     m_hiddenLayer |-> m_hiddenLayer,
                                     m_outputLayer |-> m_outputLayer ] >>
                 /\ m_hiddenLayer' = call.m_hiddenLayer
                 /\ m_outputLayer' = call.m_outputLayer
    /\ UNCHANGED <<trainVars, historyVars, layerVars, transferVars>>

\* train's loop body with output.updateWeights moved before computeDeltas.
TrainBodyUpdateFirst ==
    << "hiddenPropagate", "outputPropagate", "computeOutputDeltas",
       "outputUpdateWeights", "computeDeltas", "hiddenUpdateWeights" >>

\* The calls of train's loop body, in the order train makes them.
TrainBody ==
    << "hiddenPropagate", "outputPropagate", "computeOutputDeltas",
       "computeDeltas", "outputUpdateWeights", "hiddenUpdateWeights" >>

\* The position in TrainBody of the call named step.
Position(step) == CHOOSE n \in 1..Len(TrainBody) : TrainBody[n] = step

\* epoch <= epochCount: an outer loop that runs once too often
EpochContinuesInclusive(e, count) == e <= count

\* epoch < epochCount, the condition of train's outer loop
EpochContinues(e, count) == e < count

\* test < testCount, the condition of train's inner loop
TestContinues(t, count) == t < count

\* fTotalQuadraticError declared outside the epoch loop: never reset
EpochStartErrorCarried(fPrevious) == fPrevious

\* fTotalQuadraticError at the start of an epoch, given its value before.
EpochStartError(fPrevious) == 0

\* count floats of buffer from offset start on: &buffer[start]
Slice(buffer, start, count) == [ j \in 1..count |-> buffer[start + j] ]

\* pInputs and pExpectedOutputs of the current example
pInputs == Slice(pAllInputs, test * m_hiddenLayer.m_inputCount,
                 m_hiddenLayer.m_inputCount)

pExpectedOutputs == Slice(pAllExpectedOutputs, test * m_outputLayer.m_outputCount,
                          m_outputLayer.m_outputCount)

\* A call of train: the caller passes testCount examples in two flat buffers.
Train ==
    /\ pc = "idle"
    /\ \E epochs \in 0..MaxEpochs :
          /\ epochsRun + epochs <= MaxEpochs
          /\ epochsRun' = epochsRun + epochs
          /\ epochCount' = epochs
    /\ testCount' = examples
    /\ pAllInputs' =
          Buffer(s_testInputData, 0, examples * m_hiddenLayer.m_inputCount)
    /\ pAllExpectedOutputs' =
          Buffer(s_testOutputData, 0, examples * m_outputLayer.m_outputCount)
    /\ fLearningRate' = LearningRate
    /\ epoch' = 0
    /\ pc' = "epoch"
    /\ pHiddenValues' = <<>> /\ pHiddenDeltas' = <<>>
    /\ pOutputValues' = <<>> /\ pOutputDeltas' = <<>>
    /\ reports' = <<>> /\ epochLog' = <<>> /\ evaluated' = <<>>
    /\ done' = <<>> /\ errors' = <<>> /\ processed' = <<>>
    /\ UNCHANGED <<netVars, test, fTotalQuadraticError, examples,
                   forwardWeights, deltaWeights, reads, layerVars, transferVars>>

\* for( epoch ...; epoch < epochCount; ... ): another epoch starts
EpochLoop ==
    /\ pc = "epoch"
    /\ EpochContinues(epoch, epochCount)
    /\ fTotalQuadraticError' = EpochStartError(fTotalQuadraticError)
    /\ test' = 0
    /\ pc' = "test"
    /\ errors' = <<>> /\ processed' = <<>>
    /\ UNCHANGED <<netVars, pAllInputs, pAllExpectedOutputs, testCount,
                   epochCount, fLearningRate, epoch, pHiddenValues,
                   pHiddenDeltas, pOutputValues, pOutputDeltas, reports,
                   epochsRun, examples, evaluated, done, forwardWeights, deltaWeights,
                   reads, epochLog, layerVars, transferVars>>

\* The outer loop ends and train returns.
TrainReturn ==
    /\ pc = "epoch"
    /\ ~EpochContinues(epoch, epochCount)
    /\ pc' = "idle"
    /\ UNCHANGED <<netVars, pAllInputs, pAllExpectedOutputs, testCount,
                   epochCount, fLearningRate, epoch, test, fTotalQuadraticError,
                   pHiddenValues, pHiddenDeltas, pOutputValues, pOutputDeltas,
                   reports, epochsRun, examples, evaluated, historyVars, layerVars,
                   transferVars>>

\* for( test ...; test < testCount; ... ): another example starts
TestLoop ==
    /\ pc = "test"
    /\ TestContinues(test, testCount)
    /\ pc' = TrainBody[1]
    /\ done' = <<>>
    /\ processed' = Append(processed, test)
    /\ UNCHANGED <<netVars, pAllInputs, pAllExpectedOutputs, testCount,
                   epochCount, fLearningRate, epoch, test, fTotalQuadraticError,
                   pHiddenValues, pHiddenDeltas, pOutputValues, pOutputDeltas,
                   reports, epochsRun, examples, evaluated, forwardWeights, deltaWeights,
                   reads, errors, epochLog, layerVars, transferVars>>

\* The inner loop ends: printf( "epoch: %d  error: %.3f\n", ... ); ++epoch
Report ==
    /\ pc = "test"
    /\ ~TestContinues(test, testCount)
    /\ reports' = Append(reports, <<epoch, fTotalQuadraticError>>)
    /\ epochLog' = Append(epochLog, [errors |-> errors, processed |-> processed])
    /\ epoch' = epoch + 1
    /\ pc' = "epoch"
    /\ UNCHANGED <<netVars, pAllInputs, pAllExpectedOutputs, testCount,
                   epochCount, fLearningRate, test, fTotalQuadraticError,
                   pHiddenValues, pHiddenDeltas, pOutputValues, pOutputDeltas,
                   epochsRun, examples, evaluated, done, forwardWeights, deltaWeights,
                   reads, errors, processed, layerVars, transferVars>>

\* After a call of the loop body: on to the next call, or ++test and back to
\* the loop condition.
Advance ==
    /\ done' = Append(done, pc)
    /\ IF Position(pc) = Len(TrainBody)
       THEN pc' = "test" /\ test' = test + 1
       ELSE pc' = TrainBody[Position(pc) + 1] /\ test' = test
    /\ UNCHANGED <<pAllInputs, pAllExpectedOutputs, testCount, epochCount,
                   fLearningRate, epoch, reports, epochsRun, examples, evaluated,
                   processed, epochLog, layerVars, transferVars>>

\* m_hiddenLayer.propagate( pInputs, pHiddenValues )
HiddenPropagate ==
    /\ pc = "hiddenPropagate"
    /\ \E garbage \in Garbage :
          pHiddenValues' = propagate(m_hiddenLayer, pInputs, garbage)
    /\ Advance
    /\ UNCHANGED <<netVars, fTotalQuadraticError, pHiddenDeltas, pOutputValues,
                   pOutputDeltas, forwardWeights, deltaWeights, reads, errors>>

\* m_outputLayer.propagate( pHiddenValues, pOutputValues )
OutputPropagate ==
    /\ pc = "outputPropagate"
    /\ \E garbage \in Garbage :
          pOutputValues' = propagate(m_outputLayer, pHiddenValues, garbage)
    /\ forwardWeights' = m_outputLayer.m_pWeights
    /\ Advance
    /\ UNCHANGED <<netVars, fTotalQuadraticError, pHiddenValues, pHiddenDeltas,
                   pOutputDeltas, deltaWeights, reads, errors>>

\* fTotalQuadraticError += m_outputLayer.computeOutputDeltas( ... )
ComputeOutputDeltas ==
    /\ pc = "computeOutputDeltas"
    /\ LET call == computeOutputDeltas(m_outputLayer, pOutputValues,
                                       pExpectedOutputs)
       IN  /\ pOutputDeltas' = call.pDeltas
           /\ fTotalQuadraticError' =
                FAdd(fTotalQuadraticError, call.fTotalQuadraticError)
           /\ errors' = Append(errors, call.fTotalQuadraticError)
    /\ Advance
    /\ UNCHANGED <<netVars, pHiddenValues, pHiddenDeltas, pOutputValues,
                   forwardWeights, deltaWeights, reads>>

\* m_hiddenLayer.computeDeltas( &m_outputLayer, pOutputDeltas, ... )
ComputeDeltas ==
    /\ pc = "computeDeltas"
    /\ \E garbage \in Garbage :
          pHiddenDeltas' = computeDeltas(m_hiddenLayer, m_outputLayer,
                                         pOutputDeltas, pHiddenValues, garbage)
    /\ deltaWeights' = m_outputLayer.m_pWeights
    /\ reads' = DeltaReads(m_hiddenLayer, m_outputLayer)
    /\ Advance
    /\ UNCHANGED <<netVars, fTotalQuadraticError, pHiddenValues, pOutputValues,
                   pOutputDeltas, forwardWeights, errors>>

\* m_outputLayer.updateWeights( pHiddenValues, pOutputDeltas, fLearningRate )
OutputUpdateWeights ==
    /\ pc = "outputUpdateWeights"
    /\ m_outputLayer' = updateWeights(m_outputLayer, pHiddenValues,
                                      pOutputDeltas, fLearningRate)
    /\ Advance
    /\ UNCHANGED <<m_hiddenLayer, fTotalQuadraticError, pHiddenValues,
                   pHiddenDeltas, pOutputValues, pOutputDeltas, forwardWeights,
                   deltaWeights, reads, errors>>

\* The second update a copy of the first: the output layer updated twice.
HiddenUpdateWeightsOnOutput ==
    /\ pc = "hiddenUpdateWeights"
    /\ m_outputLayer' = updateWeights(m_outputLayer, pHiddenValues,
                                      pOutputDeltas, fLearningRate)
    /\ Advance
    /\ UNCHANGED <<m_hiddenLayer, fTotalQuadraticError, pHiddenValues,
                   pHiddenDeltas, pOutputValues, pOutputDeltas, forwardWeights,
                   deltaWeights, reads, errors>>

\* m_hiddenLayer.updateWeights( pInputs, pHiddenDeltas, fLearningRate )
HiddenUpdateWeights ==
    /\ pc = "hiddenUpdateWeights"
    /\ m_hiddenLayer' = updateWeights(m_hiddenLayer, pInputs, pHiddenDeltas,
                                      fLearningRate)
    /\ Advance
    /\ UNCHANGED <<m_outputLayer, fTotalQuadraticError, pHiddenValues,
                   pHiddenDeltas, pOutputValues, pOutputDeltas, forwardWeights,
                   deltaWeights, reads, errors>>

Next ==
    \/ Evaluate
    \/ Train
    \/ EpochLoop
    \/ TrainReturn
    \/ TestLoop
    \/ Report
    \/ HiddenPropagate
    \/ OutputPropagate
    \/ ComputeOutputDeltas
    \/ ComputeDeltas
    \/ OutputUpdateWeights
    \/ HiddenUpdateWeights

Spec == Init /\ [][Next]_vars

\* ------------------------------------------------ struct Layer on its own
\* The floats a caller passes to Layer::updateWeights.
UpdateInputs == {0, One, PosInf}

UpdateDeltas == {0, Lit(1, 10)}

UpdateRates == {LearningRate, PosInf}

\* A Layer after its construction, for any widths.
InitLayer ==
    /\ \E inputCount \in 0..MaxWidth, outputCount \in 0..MaxWidth :
          layer = Layer(inputCount, outputCount, SeedState)
    /\ layerBefore = <<>>
    /\ updateArgs = <<>>
    /\ updates = 0
    /\ NoNet /\ NoTransfer

\* A call of Layer::updateWeights with inputCount inputs and outputCount
\* deltas.
LayerUpdateWeights ==
    /\ updates < MaxUpdates
    /\ \E inputs \in [1..layer.m_inputCount -> UpdateInputs],
          deltas \in [1..layer.m_outputCount -> UpdateDeltas],
          rate \in UpdateRates :
          /\ layer' = updateWeights(layer, inputs, deltas, rate)
          /\ updateArgs' = << [ pInputs |-> inputs, pDeltas |-> deltas,
                               fLearningRate |-> rate ] >>
    /\ layerBefore' = <<layer>>
    /\ updates' = updates + 1
    /\ UNCHANGED <<netVars, trainVars, evaluated, historyVars, transferVars>>

NextLayer == LayerUpdateWeights

SpecLayer == InitLayer /\ [][NextLayer]_vars

\* ------------------------------------- the transfer functions on their own
\* Any argument of transfer within the range.
InitTransfer ==
    /\ fValue \in (-ActRange)..ActRange
    /\ fOutput = <<>>
    /\ fDerivative = <<>>
    /\ NoNet /\ NoLayer

\* pOutputs[ o ] = transfer( fActivation )
Transfer ==
    /\ fOutput = <<>>
    /\ fOutput' = <<transfer(fValue)>>
    /\ UNCHANGED <<netVars, trainVars, evaluated, historyVars, layerVars,
                   fValue, fDerivative>>

\* transferDerivative( fOutput ), as computeOutputDeltas and computeDeltas
\* call it on a value that transfer returned
TransferDerivative ==
    /\ fOutput # <<>>
    /\ fDerivative = <<>>
    /\ fDerivative' = <<transferDerivative(fOutput[1])>>
    /\ UNCHANGED <<netVars, trainVars, evaluated, historyVars, layerVars,
                   fValue, fOutput>>

NextTransfer == Transfer \/ TransferDerivative

SpecTransfer == InitTransfer /\ [][NextTransfer]_vars

\* =========================================================== properties
\* The call named step has been made for the current example.
InDone(step) == \E n \in 1..Len(done) : done[n] = step

\* For the current example the call named first was made before the call
\* named second.
Before(first, second) ==
    \E m \in 1..Len(done), n \in 1..Len(done) :
        m < n /\ done[m] = first /\ done[n] = second

\* The example indices 0, 1, ..., count - 1 in order.
InOrder(count) == [ n \in 1..count |-> n - 1 ]

RECURSIVE SumSeq(_)
\* The floats of a sequence added up from the first on, starting from 0.
SumSeq(values) ==
    IF values = <<>> THEN 0
    ELSE FAdd(SumSeq(SubSeq(values, 1, Len(values) - 1)), values[Len(values)])

\* Every width of the network is at least 1.
PositiveWidths ==
    /\ m_hiddenLayer.m_inputCount >= 1
    /\ m_hiddenLayer.m_outputCount >= 1
    /\ m_outputLayer.m_outputCount >= 1

\* C1: for every example, hidden.computeDeltas runs before
\* output.updateWeights and reads the output weights that the example's forward
\* pass used, and both updateWeights calls come after both computeOutputDeltas
\* and computeDeltas.
C1_DeltasBeforeUpdates ==
    /\ InDone("outputUpdateWeights") =>
          /\ Before("computeDeltas", "outputUpdateWeights")
          /\ Before("computeOutputDeltas", "outputUpdateWeights")
    /\ InDone("hiddenUpdateWeights") =>
          /\ Before("computeDeltas", "hiddenUpdateWeights")
          /\ Before("computeOutputDeltas", "hiddenUpdateWeights")
    /\ InDone("computeDeltas") =>
          /\ Before("outputPropagate", "computeDeltas")
          /\ deltaWeights = forwardWeights

\* An example whose six calls are done and whose update changed the output
\* layer's weights.
C1_Witness ==
    /\ Len(done) = Len(TrainBody)
    /\ m_outputLayer.m_pWeights # forwardWeights
    /\ deltaWeights = forwardWeights

\* What C2 says of every state: the epochs and reports so far, the examples
\* of the current epoch so far.
EpochsAndOrder ==
    /\ epoch <= epochCount
    /\ Len(reports) = epoch
    /\ Len(epochLog) = epoch
    /\ \A n \in 1..Len(reports) :
          /\ reports[n][1] = n - 1
          /\ epochLog[n].processed = InOrder(testCount)
    /\ pc = "idle" => epoch = epochCount
    /\ pc \in {"idle", "epoch"} => test <= testCount
    /\ pc = "test" => test <= testCount /\ processed = InOrder(test)
    /\ pc \notin {"idle", "epoch", "test"} =>
          test < testCount /\ processed = InOrder(test + 1)

\* The steps one epoch takes: the loop head, per example the inner loop head
\* and the calls of the body, and the report.
EpochSteps == 1 + testCount * (1 + Len(TrainBody)) + 1

\* The steps train has left before it has returned, if it runs exactly the
\* epochs epoch..epochCount-1 and in each the examples up to testCount-1:
\* 0 exactly when train is not running.
StepsLeft ==
    IF pc = "idle" THEN 0
    ELSE IF pc = "epoch" THEN (epochCount - epoch) * EpochSteps + 1
    ELSE (epochCount - epoch - 1) * EpochSteps + 1
         + 1
         + (IF pc = "test"
            THEN (testCount - test) * (1 + Len(TrainBody))
            ELSE (testCount - test - 1) * (1 + Len(TrainBody))
                 + (Len(TrainBody) - Position(pc) + 1))

C3_EvaluatePure ==
    evaluated # <<>> =>
        /\ m_hiddenLayer = evaluated[1].m_hiddenLayer
        /\ m_outputLayer = evaluated[1].m_outputLayer
        /\ Len(evaluated[1].pInputs) >= m_hiddenLayer.m_inputCount =>
              \A garbage \in Garbage :
                  evaluate(m_hiddenLayer, m_outputLayer, evaluated[1].pInputs,
                           garbage).pOutputs = evaluated[1].pOutputs

\* evaluate has been called with an input of the right length on a trained
\* network of positive widths.
C3_Witness ==
    /\ evaluated # <<>>
    /\ PositiveWidths
    /\ Len(evaluated[1].pInputs) = m_hiddenLayer.m_inputCount
    /\ epochsRun > 0
    /\ examples > 0

\* Layer::updateWeights was last called with all-zero deltas.
ZeroDeltas ==
    /\ updateArgs # <<>>
    /\ \A o1 \in DOMAIN updateArgs[1].pDeltas : updateArgs[1].pDeltas[o1] = 0

\* Layer::updateWeights was last called with finite inputs and a finite
\* learning rate.
FiniteArgs ==
    /\ updateArgs # <<>>
    /\ IsFinite(updateArgs[1].fLearningRate)
    /\ \A i1 \in DOMAIN updateArgs[1].pInputs :
          IsFinite(updateArgs[1].pInputs[i1])

\* C4, as claimed: updateWeights with all-zero deltas leaves every weight and
\* bias unchanged, for any inputs and any learning rate.
C4_ZeroDeltasAnyArgs ==
    ZeroDeltas => layer = layerBefore[1]

\* C4, amended: updateWeights with all-zero deltas leaves every weight and
\* bias unchanged, for any finite inputs and any finite learning rate.
C4_ZeroDeltasFiniteArgs ==
    (ZeroDeltas /\ FiniteArgs) => layer = layerBefore[1]

\* updateWeights ran with all-zero deltas, a non-zero finite learning rate and
\* a non-zero finite input on a layer of positive widths.
C4_Witness ==
    /\ ZeroDeltas /\ FiniteArgs
    /\ layer.m_inputCount >= 1 /\ layer.m_outputCount >= 1
    /\ updateArgs[1].fLearningRate # 0
    /\ \E i1 \in DOMAIN updateArgs[1].pInputs : updateArgs[1].pInputs[i1] # 0

\* The derivative of the activation elu at x: 1 for x >= 0, e^x for x < 0.
TrueDerivative(x) == IF x >= 0 THEN One ELSE Expf(x)

Distance(a, b) == IF a >= b THEN a - b ELSE b - a

\* C5: transferDerivative applied to transfer(x) is the derivative of transfer
\* at x: 1 for x >= 0, and e^x, which is transfer(x) + 1, for x < 0.
C5_MatchedPair ==
    fDerivative # <<>> =>
        /\ Distance(fDerivative[1], TrueDerivative(fValue)) <= Tol
        /\ fValue < 0 => Distance(fDerivative[1], FAdd(fOutput[1], One)) <= Tol

\* Some width of the network is 0.
ZeroWidth == ~PositiveWidths

\* C6: a network with a zero width is never one that evaluate or train runs
\* on: its construction has failed.
C6_ZeroWidthRejected ==
    ZeroWidth => (evaluated = <<>> /\ pc = "idle" /\ epochsRun = 0)

\* C7: on a network of positive widths, evaluate writes exactly outputCount
\* values, and only for an input of exactly inputCount values: any other
\* input is rejected.
C7_DimensionContract ==
    (PositiveWidths /\ evaluated # <<>>) =>
        /\ Len(evaluated[1].pOutputs) = m_outputLayer.m_outputCount
        /\ Len(evaluated[1].pInputs) = m_hiddenLayer.m_inputCount

\* W[k, o] of a layer whose weights are row-major by output unit.
RowMajor(weights, inputCount, k, o) == weights[inputCount * k + o + 1]

RECURSIVE ErrorSum(_, _, _, _, _)
\* The sum over the next layer's units 0..k-1 of nextDeltas[k] * W[k, o].
ErrorSum(nextDeltas, weights, inputCount, o, k) ==
    IF k = 0 THEN 0
    ELSE FAdd(ErrorSum(nextDeltas, weights, inputCount, o, k - 1),
              FMul(nextDeltas[k],
                   RowMajor(weights, inputCount, k - 1, o)))

\* C8: hidden.n_out = output.n_in always; every weight computeDeltas reads for
\* hidden unit o and output unit k is at the row-major index of W[k, o] and
\* inside the output layer's buffer, for every pair (k, o); and the delta of
\* unit o is (sum over k of outputDeltas[k] * W[k, o]) times the derivative.
C8_DeltaIndexing ==
    /\ m_hiddenLayer.m_outputCount = m_outputLayer.m_inputCount
    /\ \A read \in reads :
          /\ read[3] = m_outputLayer.m_inputCount * read[1] + read[2]
          /\ read[3] >= 0
          /\ read[3] < m_outputLayer.m_inputCount * m_outputLayer.m_outputCount
    /\ InDone("computeDeltas") =>
          /\ \A k \in 0..(m_outputLayer.m_outputCount - 1),
                o \in 0..(m_hiddenLayer.m_outputCount - 1) :
                \E read \in reads : read[1] = k /\ read[2] = o
          /\ \A o \in 0..(m_hiddenLayer.m_outputCount - 1) :
                pHiddenDeltas[o + 1] =
                    FMul(ErrorSum(pOutputDeltas, deltaWeights,
                                  m_outputLayer.m_inputCount, o,
                                  m_outputLayer.m_outputCount),
                         transferDerivative(pHiddenValues[o + 1]))

\* computeDeltas has read a weight of the second output unit for the second
\* hidden unit, in a network whose input and hidden widths differ.
C8_Witness ==
    /\ InDone("computeDeltas")
    /\ <<1, 1, m_outputLayer.m_inputCount + 1>> \in reads
    /\ m_hiddenLayer.m_inputCount # m_hiddenLayer.m_outputCount
    /\ pHiddenDeltas[2] # 0

\* C9: only a layer's own updateWeights changes its weights and biases:
\* propagate, computeOutputDeltas, computeDeltas, evaluate and the loop steps
\* change neither layer, output.updateWeights leaves the hidden layer alone and
\* hidden.updateWeights leaves the output layer alone.
C9_OnlyOwnUpdateWrites ==
    [][ /\ pc \notin {"outputUpdateWeights", "hiddenUpdateWeights"} =>
              UNCHANGED netVars
        /\ pc = "outputUpdateWeights" => UNCHANGED m_hiddenLayer
        /\ pc = "hiddenUpdateWeights" => UNCHANGED m_outputLayer ]_vars

\* Both updates of an example are done and each changed its own layer.
C9_Witness ==
    /\ InDone("outputUpdateWeights")
    /\ InDone("hiddenUpdateWeights")
    /\ PositiveWidths
    /\ m_hiddenLayer #
          Layer(m_hiddenLayer.m_inputCount, m_hiddenLayer.m_outputCount, SeedState)
    /\ m_outputLayer.m_pBiases # randomize(
          randAfter(LayerRandAfter(m_hiddenLayer.m_inputCount,
                                   m_hiddenLayer.m_outputCount, SeedState),
                    m_outputLayer.m_inputCount * m_outputLayer.m_outputCount),
          m_outputLayer.m_outputCount)

RECURSIVE SquaredErrors(_, _, _)
\* The sum over the output units 0..count-1 of (expected - output)^2.
SquaredErrors(outputs, expected, count) ==
    IF count = 0 THEN 0
    ELSE FAdd(SquaredErrors(outputs, expected, count - 1),
              FMul(FSub(expected[count], outputs[count]),
                   FSub(expected[count], outputs[count])))

\* C10: the error reported for an epoch is the sum of the squared errors that
\* computeOutputDeltas returned for the testCount examples of that epoch alone,
\* each taken from the example's forward pass before its weight update; it is
\* 0 when there are no examples, and never negative.
C10_EpochError ==
    /\ \A n \in 1..Len(reports) :
          /\ Len(epochLog[n].errors) = testCount
          /\ reports[n][2] = SumSeq(epochLog[n].errors)
          /\ FGeZero(reports[n][2])
          /\ testCount = 0 => reports[n][2] = 0
    /\ pc \notin {"idle", "epoch"} => fTotalQuadraticError = SumSeq(errors)
    /\ InDone("computeOutputDeltas") =>
          /\ Before("outputPropagate", "computeOutputDeltas")
          /\ ~Before("outputUpdateWeights", "computeOutputDeltas")
          /\ ~Before("hiddenUpdateWeights", "computeOutputDeltas")
          /\ pc \notin {"idle", "epoch", "test"} =>
                errors[Len(errors)] =
                    SquaredErrors(pOutputValues, pExpectedOutputs,
                                  m_outputLayer.m_outputCount)

\* Two epochs over two examples were reported, with different non-zero errors.
C10_Witness ==
    /\ Len(reports) = 2
    /\ testCount = 2
    /\ reports[1][2] > 0
    /\ reports[2][2] > 0
    /\ reports[1][2] # reports[2][2]
====
